---- MODULE Spec2Model ----
(***************************************************************************)
(* Model of graph/src/abi: the value/type reconciliation (fix_type_size,  *)
(* type_check), the FixedBytes constructor, the signature formatter, the  *)
(* event log decoder and the function call encoder.                       *)
(*                                                                         *)
(* Representation.  A DynSolType is a record [k, w, n, ts]: k the variant, *)
(* w the declared width (bits for Int/Uint, bytes for FixedBytes), n the   *)
(* FixedArray size, ts the element type (Array, FixedArray: one entry) or  *)
(* the component types (Tuple).  A DynSolValue is a record [k, w, v, e]:   *)
(* w the width the value carries, v the payload as bytes (a U256/I256 and  *)
(* a FixedBytes slot are their 32 big-endian bytes, a Bool is one byte,    *)
(* an Address 20 bytes, a Function 24 bytes, Bytes/String their content),  *)
(* e the elements of Array/FixedArray/Tuple.  Encoded data is a sequence   *)
(* of bytes.                                                               *)
(***************************************************************************)
EXTENDS Integers, Sequences, FiniteSets, TLC

VARIABLES pc, lib, ty, val, res, res2, tc, slice, fb, fn, sig, ev, log, decoded, decoded_params,
          values, idx, fixed_values, failed, encoder, result

vars == <<pc, lib, ty, val, res, res2, tc, slice, fb, fn, sig, ev, log, decoded, decoded_params,
          values, idx, fixed_values, failed, encoder, result>>

reconVars == <<ty, val, res, res2, tc>>
fbVars == <<slice, fb>>
logVars == <<ev, log, decoded, decoded_params>>
encVars == <<values, idx, fixed_values, failed, encoder, result>>

\* ------------------------------------------------------------------ bounds
MaxLen == 2
MaxSlice == 33
MaxArgs == 2
MaxParams == 2
MaxEventParams == 3
MaxTopics == 5

\* ----------------------------------------------------------------- helpers
WordLen == 32

Zeros(n) == [i \in 1..n |-> 0]

Fill(n, b) == [i \in 1..n |-> b]

RECURSIVE Concat(_)
Concat(ss) == IF ss = <<>> THEN <<>> ELSE Head(ss) \o Concat(Tail(ss))

RECURSIVE SumSeq(_)
SumSeq(s) == IF s = <<>> THEN 0 ELSE Head(s) + SumSeq(Tail(s))

Drop(s, n) == SubSeq(s, n + 1, Len(s))

SeqsUpTo(S, n) == UNION {[1..m -> S] : m \in 0..n}

\* U256::to_be_bytes of a small natural number
U(n) == Zeros(28) \o <<(n \div 16777216) % 256, (n \div 65536) % 256, (n \div 256) % 256, n % 256>>

\* I256 -1 in two's complement
MinusOne == Fill(32, 255)

PadRight(bytes) == bytes \o Zeros((WordLen - (Len(bytes) % WordLen)) % WordLen)

\* ----------------------------------------------------------------- library
\* The ABI library (matches, abi_encode, abi_decode, decode_log,
\* abi_encode_input) is outside this repository.  Two points of its
\* behaviour are left open and every property is checked for each choice:
\* tuple_arity, whether matches compares a tuple's length with the number
\* of component types; topic_count, whether decode_log enforces the number
\* of topics (the count test of EventExt::decode_log guards against a
\* decoder that does not).
Libs == [tuple_arity : BOOLEAN, topic_count : BOOLEAN]

\* ------------------------------------------------------------ constructors
mkT(k, w, n, ts) == [k |-> k, w |-> w, n |-> n, ts |-> ts]

mkV(k, w, v, e) == [k |-> k, w |-> w, v |-> v, e |-> e]

TBool == mkT("Bool", 0, 0, <<>>)
TInt(w) == mkT("Int", w, 0, <<>>)
TUint(w) == mkT("Uint", w, 0, <<>>)
TFixedBytes(w) == mkT("FixedBytes", w, 0, <<>>)
TAddress == mkT("Address", 0, 0, <<>>)
TFunction == mkT("Function", 0, 0, <<>>)
TBytes == mkT("Bytes", 0, 0, <<>>)
TString == mkT("String", 0, 0, <<>>)
TArray(t) == mkT("Array", 0, 0, <<t>>)
TFixedArray(t, n) == mkT("FixedArray", 0, n, <<t>>)
TTuple(ts) == mkT("Tuple", 0, 0, ts)

VBool(b) == mkV("Bool", 0, <<IF b THEN 1 ELSE 0>>, <<>>)
VInt(word, w) == mkV("Int", w, word, <<>>)
VUint(word, w) == mkV("Uint", w, word, <<>>)
VFixedBytes(word, w) == mkV("FixedBytes", w, word, <<>>)
VAddress(b20) == mkV("Address", 0, b20, <<>>)
VFunction(b24) == mkV("Function", 0, b24, <<>>)
VBytes(b) == mkV("Bytes", 0, b, <<>>)
VString(b) == mkV("String", 0, b, <<>>)
VArray(e) == mkV("Array", 0, <<>>, e)
VFixedArray(e) == mkV("FixedArray", 0, <<>>, e)
VTuple(e) == mkV("Tuple", 0, <<>>, e)

NoType == mkT("None", 0, 0, <<>>)
NoValue == mkV("None", 0, <<>>, <<>>)

WordKinds == {"Bool", "Int", "Uint", "FixedBytes", "Address", "Function"}
WidthKinds == {"Int", "Uint", "FixedBytes"}
SeqKinds == {"Array", "FixedArray", "Tuple"}

\* ------------------------------------------- exact match (DynSolValue::matches)
\* strict: whether the library's Tuple arm also compares the number of
\* elements with the number of component types (see Libs).
RECURSIVE matches(_, _, _)
matches(v, t, strict) ==
    CASE v.k \in {"Bool", "Address", "Function", "Bytes", "String"} -> t.k = v.k
      [] v.k \in WidthKinds -> t.k = v.k /\ t.w = v.w
      [] v.k = "Array" -> t.k = "Array" /\ \A i \in 1..Len(v.e) : matches(v.e[i], t.ts[1], strict)
      [] v.k = "FixedArray" ->
            /\ t.k = "FixedArray"
            /\ t.n = Len(v.e)
            /\ \A i \in 1..Len(v.e) : matches(v.e[i], t.ts[1], strict)
      [] v.k = "Tuple" ->
            /\ t.k = "Tuple"
            /\ (strict => Len(v.e) = Len(t.ts))
            /\ \A i \in 1..Len(v.e) : i <= Len(t.ts) => matches(v.e[i], t.ts[i], strict)
      [] OTHER -> FALSE

\* --------------------------------------------------------------- type_check
\* The result is "true", "false" or "panic" (an index out of bounds aborts
\* the thread).  Iterator::all stops at the first element that is not true.
Tri(b) == IF b THEN "true" ELSE "false"

RECURSIVE type_check(_, _), all_elems(_, _, _), all_tuple(_, _, _)
all_elems(elems, t, i) ==
    IF i > Len(elems) THEN "true"
    ELSE LET r == type_check(elems[i], t)
         IN IF r = "true" THEN all_elems(elems, t, i + 1) ELSE r

all_tuple(elems, types, i) ==
    IF i > Len(elems) THEN "true"
    ELSE IF i > Len(types) THEN "panic"
    ELSE LET r == type_check(elems[i], types[i])
         IN IF r = "true" THEN all_tuple(elems, types, i + 1) ELSE r

type_check(v, t) ==
    CASE v.k = "Bool" -> Tri(t = TBool)
      [] v.k = "Int" -> IF t.k = "Int" THEN Tri(t.w >= v.w) ELSE "false"
      [] v.k = "Uint" -> IF t.k = "Uint" THEN Tri(t.w >= v.w) ELSE "false"
      [] v.k = "FixedBytes" -> IF t.k = "FixedBytes" THEN Tri(t.w >= v.w) ELSE "false"
      [] v.k = "Address" -> Tri(t = TAddress)
      [] v.k = "Function" -> Tri(t = TFunction)
      [] v.k = "Bytes" -> Tri(t = TBytes)
      [] v.k = "String" -> Tri(t = TString)
      [] v.k = "Array" -> IF t.k = "Array" THEN all_elems(v.e, t.ts[1], 1) ELSE "false"
      [] v.k = "FixedArray" ->
            IF t.k = "FixedArray"
            THEN IF t.n = Len(v.e) THEN all_elems(v.e, t.ts[1], 1) ELSE "false"
            ELSE "false"
      [] v.k = "Tuple" -> IF t.k = "Tuple" THEN all_tuple(v.e, t.ts, 1) ELSE "false"
      [] OTHER -> "false"

\* ----------------------------------------------- encoder (DynSolValue::abi_encode)
RECURSIVE is_dynamic_v(_)
is_dynamic_v(v) ==
    \/ v.k \in {"Bytes", "String", "Array"}
    \/ v.k \in {"FixedArray", "Tuple"} /\ \E i \in 1..Len(v.e) : is_dynamic_v(v.e[i])

word_of(v) ==
    CASE v.k = "Bool" -> Zeros(31) \o v.v
      [] v.k = "Address" -> Zeros(12) \o v.v
      [] v.k = "Function" -> v.v \o Zeros(8)
      [] OTHER -> v.v

RECURSIVE encode_seq(_), enc_static(_), enc_tail(_)
enc_static(v) == IF v.k \in WordKinds THEN word_of(v) ELSE encode_seq(v.e)

enc_tail(v) ==
    CASE v.k \in {"Bytes", "String"} -> U(Len(v.v)) \o PadRight(v.v)
      [] v.k = "Array" -> U(Len(v.e)) \o encode_seq(v.e)
      [] OTHER -> encode_seq(v.e)

\* heads (a value in place, or the offset of its tail counted from the start
\* of the heads), followed by the tails
encode_seq(vals) ==
    LET n == Len(vals)
        dyn == [i \in 1..n |-> is_dynamic_v(vals[i])]
        inl == [i \in 1..n |-> IF dyn[i] THEN <<>> ELSE enc_static(vals[i])]
        tails == [i \in 1..n |-> IF dyn[i] THEN enc_tail(vals[i]) ELSE <<>>]
        headLen == SumSeq([i \in 1..n |-> IF dyn[i] THEN WordLen ELSE Len(inl[i])])
        tailOff(i) == headLen + SumSeq([j \in 1..(i - 1) |-> Len(tails[j])])
        heads == [i \in 1..n |-> IF dyn[i] THEN U(tailOff(i)) ELSE inl[i]]
    IN Concat(heads) \o Concat(tails)

\* a single value is encoded as a sequence of one element
abi_encode(v) == encode_seq(<<v>>)

\* ------------------------------------------------ decoder (DynSolType::abi_decode)
RECURSIVE is_dynamic_t(_)
is_dynamic_t(t) ==
    \/ t.k \in {"Bytes", "String", "Array"}
    \/ t.k = "FixedArray" /\ is_dynamic_t(t.ts[1])
    \/ t.k = "Tuple" /\ \E i \in 1..Len(t.ts) : is_dynamic_t(t.ts[i])

RECURSIVE is_zst(_)
is_zst(t) ==
    \/ t.k = "Array" /\ is_zst(t.ts[1])
    \/ t.k = "FixedArray" /\ (t.n = 0 \/ is_zst(t.ts[1]))
    \/ t.k = "Tuple" /\ \A i \in 1..Len(t.ts) : is_zst(t.ts[i])

RECURSIVE zero_sized_value(_)
zero_sized_value(t) ==
    CASE t.k = "Tuple" -> VTuple([i \in 1..Len(t.ts) |-> zero_sized_value(t.ts[i])])
      [] t.k = "FixedArray" -> VFixedArray([i \in 1..t.n |-> zero_sized_value(t.ts[1])])
      [] OTHER -> VArray(<<>>)

RECURSIVE minimum_words(_)
minimum_words(t) ==
    CASE t.k \in WordKinds -> 1
      [] t.k \in {"Bytes", "String", "Array"} -> 2
      [] t.k = "FixedArray" -> t.n * minimum_words(t.ts[1])
      [] OTHER -> SumSeq([i \in 1..Len(t.ts) |-> minimum_words(t.ts[i])])

\* an offset or a length is the low 8 bytes of a word; anything that does
\* not fit the model's integers is HugeOffset, larger than every buffer
HugeOffset == 64 * 16777216

as_offset(word) ==
    IF (\A i \in 25..28 : word[i] = 0) /\ word[29] < 64
    THEN word[29] * 16777216 + word[30] * 65536 + word[31] * 256 + word[32]
    ELSE HugeOffset

DecErr == [ok |-> FALSE, val |-> NoValue, off |-> 0]
DecOk(v, off) == [ok |-> TRUE, val |-> v, off |-> off]

detokenize(t, word) ==
    CASE t.k = "Bool" -> VBool(word # Zeros(WordLen))
      [] t.k = "Int" -> VInt(word, t.w)
      [] t.k = "Uint" -> VUint(word, t.w)
      [] t.k = "FixedBytes" -> VFixedBytes(word, t.w)
      [] t.k = "Address" -> VAddress(SubSeq(word, 13, 32))
      [] OTHER -> VFunction(SubSeq(word, 1, 24))

\* decode_populate(t, buf, off): decode one item of type t from the decoder
\* whose buffer is buf and whose cursor is off (bytes)
RECURSIVE decode_populate(_, _, _), decode_elems(_, _, _, _)
decode_elems(types, buf, off, acc) ==
    IF Len(acc) = Len(types) THEN [ok |-> TRUE, vals |-> acc, off |-> off]
    ELSE LET r == decode_populate(types[Len(acc) + 1], buf, off)
         IN IF r.ok THEN decode_elems(types, buf, r.off, Append(acc, r.val))
            ELSE [ok |-> FALSE, vals |-> <<>>, off |-> 0]

decode_populate(t, buf, off) ==
    IF t.k \in WordKinds
    THEN IF off + WordLen > Len(buf) THEN DecErr
         ELSE DecOk(detokenize(t, SubSeq(buf, off + 1, off + WordLen)), off + WordLen)
    ELSE IF t.k \in {"FixedArray", "Tuple"} /\ ~is_dynamic_t(t)
    THEN LET types == IF t.k = "Tuple" THEN t.ts ELSE [i \in 1..t.n |-> t.ts[1]]
             r == decode_elems(types, buf, off, <<>>)
         IN IF r.ok THEN DecOk(mkV(t.k, 0, <<>>, r.vals), r.off) ELSE DecErr
    ELSE \* take_indirection
         IF off + WordLen > Len(buf) THEN DecErr
         ELSE LET o == as_offset(SubSeq(buf, off + 1, off + WordLen))
              IN IF o > Len(buf) THEN DecErr
                 ELSE LET child == Drop(buf, o)
                      IN IF t.k \in {"FixedArray", "Tuple"}
                         THEN LET types == IF t.k = "Tuple" THEN t.ts ELSE [i \in 1..t.n |-> t.ts[1]]
                                  r == decode_elems(types, child, 0, <<>>)
                              IN IF r.ok THEN DecOk(mkV(t.k, 0, <<>>, r.vals), off + WordLen)
                                 ELSE DecErr
                         ELSE IF Len(child) < WordLen THEN DecErr
                         ELSE LET size == as_offset(SubSeq(child, 1, WordLen))
                                  rest == Drop(child, WordLen)
                              IN IF t.k = "Array"
                                 THEN IF size = 0 THEN DecOk(VArray(<<>>), off + WordLen)
                                      ELSE IF size > Len(rest)
                                              \/ Len(rest) \div WordLen < minimum_words(t.ts[1]) * size
                                      THEN DecErr
                                      ELSE LET r == decode_elems([i \in 1..size |-> t.ts[1]], rest, 0, <<>>)
                                           IN IF r.ok THEN DecOk(VArray(r.vals), off + WordLen)
                                              ELSE DecErr
                                 ELSE IF size > Len(rest) THEN DecErr
                                      ELSE DecOk(mkV(t.k, 0, SubSeq(rest, 1, size), <<>>), off + WordLen)

abi_decode(t, data) ==
    IF is_zst(t) THEN DecOk(zero_sized_value(t), 0)
    ELSE IF Len(data) \div WordLen < minimum_words(t) THEN DecErr
    ELSE decode_populate(t, data, 0)

\* ----------------------------------------------------------- fix_type_size
\* st: "ok" (Cow in cow, value in val), "err" (kind in err) or "panic";
\* repaired: whether the encode/decode step was reached
FixRes(st, cow, v, err, rep) == [st |-> st, cow |-> cow, val |-> v, err |-> err, repaired |-> rep]

NoRes == FixRes("none", "", NoValue, "", FALSE)

\* fix_type_size without the type_check guard
fix_type_size_unchecked(t, v, strict) ==
    IF matches(v, t, strict) THEN FixRes("ok", "Borrowed", v, "", FALSE)
    ELSE LET d == abi_decode(t, abi_encode(v))
         IN IF d.ok THEN FixRes("ok", "Owned", d.val, "", TRUE)
            ELSE FixRes("err", "", NoValue, "DecodeError", TRUE)

\* fix_type_size without the early return for values that already match
fix_type_size_always_repair(t, v, strict) ==
    LET chk == type_check(v, t)
    IN IF chk = "panic" THEN FixRes("panic", "", NoValue, "", FALSE)
       ELSE IF chk = "false" THEN FixRes("err", "", NoValue, "TypeMismatch", FALSE)
       ELSE LET d == abi_decode(t, abi_encode(v))
            IN IF d.ok THEN FixRes("ok", "Owned", d.val, "", TRUE)
               ELSE FixRes("err", "", NoValue, "DecodeError", TRUE)

fix_type_size(t, v, strict) ==
    IF matches(v, t, strict) THEN FixRes("ok", "Borrowed", v, "", FALSE)
    ELSE LET chk == type_check(v, t)
         IN IF chk = "panic" THEN FixRes("panic", "", NoValue, "", FALSE)
            ELSE IF chk = "false" THEN FixRes("err", "", NoValue, "TypeMismatch", FALSE)
            ELSE LET bytes == abi_encode(v)
                     d == abi_decode(t, bytes)
                 IN IF d.ok THEN FixRes("ok", "Owned", d.val, "", TRUE)
                    ELSE FixRes("err", "", NoValue, "DecodeError", TRUE)

\* ---------------------------------------------------- fixed_bytes_from_slice
FbRes(st, v, err) == [st |-> st, val |-> v, err |-> err]

NoFb == FbRes("none", NoValue, "")

\* fixed_bytes_from_slice that also refuses a slice of exactly 32 bytes
fixed_bytes_from_slice_off_by_one(s) ==
    LET num_bytes == Len(s)
    IN IF num_bytes >= 32 THEN FbRes("err", NoValue, "InvalidLength")
       ELSE FbRes("ok", VFixedBytes([i \in 1..WordLen |-> IF i <= num_bytes THEN s[i] ELSE 0], num_bytes), "")

fixed_bytes_from_slice(s) ==
    LET num_bytes == Len(s)
    IN IF num_bytes > 32 THEN FbRes("err", NoValue, "InvalidLength")
       ELSE LET bytes == [i \in 1..WordLen |-> IF i <= num_bytes THEN s[i] ELSE 0]
            IN FbRes("ok", VFixedBytes(bytes, num_bytes), "")

\* --------------------------------------------------------- signature_compat
\* the canonical type string Param::selector_type_raw appends
RECURSIVE selector_type_raw(_), join_types(_, _)
join_types(ts, i) ==
    IF i > Len(ts) THEN ""
    ELSE (IF i > 1 THEN "," ELSE "") \o selector_type_raw(ts[i]) \o join_types(ts, i + 1)

selector_type_raw(t) ==
    CASE t.k = "Bool" -> "bool"
      [] t.k = "Int" -> "int" \o ToString(t.w)
      [] t.k = "Uint" -> "uint" \o ToString(t.w)
      [] t.k = "FixedBytes" -> "bytes" \o ToString(t.w)
      [] t.k = "Address" -> "address"
      [] t.k = "Function" -> "function"
      [] t.k = "Bytes" -> "bytes"
      [] t.k = "String" -> "string"
      [] t.k = "Array" -> selector_type_raw(t.ts[1]) \o "[]"
      [] t.k = "FixedArray" -> selector_type_raw(t.ts[1]) \o "[" \o ToString(t.n) \o "]"
      [] OTHER -> "(" \o join_types(t.ts, 1) \o ")"

\* the loop `for i in 1..n` of signature_part (i is 0-based there)
RECURSIVE signature_rest(_, _, _)
signature_rest(params, i, out) ==
    IF i > Len(params) THEN out
    ELSE signature_rest(params, i + 1, out \o "," \o selector_type_raw(params[i]))

\* signature_part that pushes a comma after every parameter
RECURSIVE signature_each(_, _, _)
signature_each(params, i, out) ==
    IF i > Len(params) THEN out
    ELSE signature_each(params, i + 1, out \o selector_type_raw(params[i]) \o ",")

signature_part_comma_after_each(params, out) == signature_each(params, 1, out \o "(") \o ")"

signature_part(params, out) ==
    LET open == out \o "("
        body == CASE Len(params) = 0 -> open
                  [] Len(params) = 1 -> open \o selector_type_raw(params[1])
                  [] OTHER -> signature_rest(params, 2, open \o selector_type_raw(params[1]))
    IN body \o ")"

signature_compat(f) ==
    LET sig1 == signature_part(f.inputs, f.name)
    IN IF f.outputs # <<>> THEN signature_part(f.outputs, sig1 \o ":") ELSE sig1

\* --------------------------------------------------------------- decode_log
\* the first topic of a non-anonymous event: the hash of its signature
\* (the hash function is not modelled; one word stands for it)
EventSelector == Fill(32, 221)

Min(a, b) == IF a <= b THEN a ELSE b

IsIndexed(p) == p.indexed

IsBody(p) == ~p.indexed

TypesOf(params) == [i \in 1..Len(params) |-> params[i].ty]

\* DynSolType::decode_event_topic: a value type is read from the word, any
\* other type is present only as its hash
decode_event_topic(t, topic) ==
    IF t.k \in WordKinds THEN detokenize(t, topic) ELSE VFixedBytes(topic, 32)

\* DynSolType::abi_decode_sequence of a tuple type: its elements
abi_decode_sequence(t, data) ==
    IF is_zst(t) THEN [ok |-> TRUE, vals |-> zero_sized_value(t).e, off |-> 0]
    ELSE IF Len(data) \div WordLen < minimum_words(t) THEN [ok |-> FALSE, vals |-> <<>>, off |-> 0]
    ELSE decode_elems(t.ts, data, 0, <<>>)

Decoded(ok, err, indexed, body) == [ok |-> ok, err |-> err, indexed |-> indexed, body |-> body]

NoDecoded == Decoded(FALSE, "none", <<>>, <<>>)

\* the library's EventExt::decode_log(event, log_data, validate = true); the
\* payloads of Logs are canonical encodings or cut short, so the padding
\* tests of the validating decoder are not modelled
alloy_decode_log(e, l, topic_count) ==
    LET indexed_types == TypesOf(SelectSeq(e.inputs, IsIndexed))
        body_types == TypesOf(SelectSeq(e.inputs, IsBody))
        num_topics == (IF e.anonymous THEN 0 ELSE 1) + Len(indexed_types)
        rest == IF e.anonymous \/ l.topics = <<>> THEN l.topics ELSE Tail(l.topics)
        n == Min(Len(indexed_types), Len(rest))
        indexed == [i \in 1..n |-> decode_event_topic(indexed_types[i], rest[i])]
        body == abi_decode_sequence(TTuple(body_types), l.data)
    IN IF topic_count /\ Len(l.topics) # num_topics
       THEN Decoded(FALSE, "TopicLengthMismatch", <<>>, <<>>)
       ELSE IF topic_count /\ ~e.anonymous /\ l.topics[1] # EventSelector
       THEN Decoded(FALSE, "EventSignatureMismatch", <<>>, <<>>)
       ELSE IF ~body.ok THEN Decoded(FALSE, "DecodeError", <<>>, <<>>)
       ELSE Decoded(TRUE, "", indexed, body.vals)

\* log_to_log_data: LogData::new refuses more than four topics
log_to_log_data_ok(l) == Len(l.topics) <= 4

LogRes(st, err, params) == [st |-> st, err |-> err, params |-> params]

NoLogRes == LogRes("none", "", <<>>)

\* name_decoded without the count test
name_decoded_unchecked(e, d) ==
    LET vs == d.indexed \o d.body
    IN IF Len(vs) > Len(e.inputs) THEN LogRes("panic", "", <<>>)
       ELSE LogRes("ok", "", [i \in 1..Len(vs) |-> [name |-> e.inputs[i].name, value |-> vs[i]]])

\* the part of decode_log after the library call: count test, then names
name_decoded(e, d) ==
    IF Len(e.inputs) # Len(d.indexed) + Len(d.body)
    THEN LogRes("err", "CountMismatch", <<>>)
    ELSE LET vs == d.indexed \o d.body
         IN LogRes("ok", "", [i \in 1..Len(vs) |-> [name |-> e.inputs[i].name, value |-> vs[i]]])

decode_log(e, l, d) ==
    IF ~log_to_log_data_ok(l) THEN LogRes("err", "InvalidTopicCount", <<>>)
    ELSE IF ~d.ok THEN LogRes("err", d.err, <<>>)
    ELSE name_decoded(e, d)

\* --------------------------------------------------------- abi_encode_input
\* the function selector: four bytes of the hash of the signature (the hash
\* function is not modelled; four bytes stand for it)
Selector == <<222, 173, 190, 239>>

EncRes(st, err, bytes) == [st |-> st, err |-> err, bytes |-> bytes]

\* the library's JsonAbiExt::abi_encode_input(function, values)
alloy_abi_encode_input(f, vs, strict) ==
    IF Len(f.inputs) # Len(vs) THEN EncRes("err", "EncodeLengthMismatch", <<>>)
    ELSE IF \E i \in 1..Len(vs) : ~matches(vs[i], f.inputs[i], strict)
    THEN EncRes("err", "TypeMismatch", <<>>)
    ELSE EncRes("ok", "", Selector \o encode_seq(vs))

\* the length test of abi_encode_input, left out
arity_unchecked(inputs, vs) == TRUE

\* the length test of abi_encode_input
arity_ok(inputs, vs) == Len(inputs) = Len(vs)

\* the values handed to the library: always the caller's
encoder_values_original(vs, fixed) == vs

\* the values handed to the library: the caller's when every Cow is
\* Borrowed, the owned copies otherwise
encoder_values(vs, fixed) ==
    IF \A i \in 1..Len(fixed) : fixed[i].cow = "Borrowed" THEN vs
    ELSE [i \in 1..Len(fixed) |-> fixed[i].val]

\* ------------------------------------------------------------ input sets
Bytes2 == <<171, 205>>

LeafTypes ==
    {TBool, TInt(8), TInt(256), TUint(8), TUint(256), TFixedBytes(2), TFixedBytes(32),
     TAddress, TFunction, TBytes, TString}

LeafValues ==
    {VBool(TRUE), VBool(FALSE), VInt(MinusOne, 8), VInt(U(1), 256),
     VUint(U(5), 8), VUint(U(5), 64), VUint(U(300), 256),
     VFixedBytes(Bytes2 \o Zeros(30), 2), VFixedBytes(Fill(32, 7), 32),
     VAddress(Fill(20, 17)), VFunction(Fill(24, 34)),
     VBytes(<<1, 2, 3>>), VString(<<97, 98>>), VString(Fill(33, 97))}

ElemTypes == {TUint(8), TUint(256), TBool, TString}

ElemValues == {VUint(U(5), 8), VUint(U(5), 256), VBool(TRUE), VString(<<97, 98>>)}

CompTypes ==
    {TArray(t) : t \in ElemTypes}
    \cup {TFixedArray(t, n) : t \in ElemTypes, n \in 1..MaxLen}
    \cup {TTuple(ts) : ts \in SeqsUpTo(ElemTypes, MaxLen)}

CompValues ==
    {VArray(e) : e \in SeqsUpTo(ElemValues, MaxLen)}
    \cup {VFixedArray(e) : e \in SeqsUpTo(ElemValues, MaxLen)}
    \cup {VTuple(e) : e \in SeqsUpTo(ElemValues, MaxLen)}

NestedTypes ==
    {TArray(TTuple(<<TUint(256), TString>>)),
     TTuple(<<TArray(TUint(256)), TBool>>),
     TTuple(<<TTuple(<<TUint(256), TFixedBytes(32)>>), TInt(256)>>),
     TFixedArray(TArray(TInt(256)), 2),
     TArray(TFixedArray(TFixedBytes(4), 2)),
     TTuple(<<TString, TTuple(<<>>), TUint(64)>>)}

NestedValues ==
    {VArray(<<VTuple(<<VUint(U(5), 8), VString(<<97, 98>>)>>),
              VTuple(<<VUint(U(300), 256), VString(Fill(33, 97))>>)>>),
     VArray(<<VTuple(<<VUint(U(5), 8)>>)>>),
     VTuple(<<VArray(<<VUint(U(5), 8), VUint(U(300), 256)>>), VBool(TRUE)>>),
     VTuple(<<VArray(<<VUint(U(5), 8)>>)>>),
     VTuple(<<VTuple(<<VUint(U(5), 64), VFixedBytes(Bytes2 \o Zeros(30), 2)>>), VInt(MinusOne, 8)>>),
     VFixedArray(<<VArray(<<VInt(MinusOne, 8)>>), VArray(<<>>)>>),
     VArray(<<VFixedArray(<<VFixedBytes(Bytes2 \o Zeros(30), 2), VFixedBytes(Bytes2 \o Zeros(30), 2)>>)>>),
     VTuple(<<VString(<<97, 98>>), VTuple(<<>>), VUint(U(5), 8)>>),
     VTuple(<<VString(<<97, 98>>), VTuple(<<>>)>>)}

Types == LeafTypes \cup CompTypes \cup NestedTypes

Values == LeafValues \cup CompValues \cup NestedValues

\* slices of every length up to MaxSlice, in four byte patterns
Slices ==
    UNION {{Fill(n, 255), Fill(n, 0), [i \in 1..n |-> i], [i \in 1..n |-> (250 + i) % 256]} :
           n \in 0..MaxSlice}

SigTypes ==
    {TBool, TUint(256), TString, TFixedBytes(32), TTuple(<<TInt(8), TArray(TAddress)>>),
     TFixedArray(TBytes, 3)}

FnNames == {"f", "functionName"}

NoFn == [name |-> "", inputs |-> <<>>, outputs |-> <<>>]

Functions ==
    {[name |-> nm, inputs |-> ins, outputs |-> outs] :
        nm \in FnNames, ins \in SeqsUpTo(SigTypes, MaxParams), outs \in SeqsUpTo(SigTypes, MaxParams)}

NoEncoder == [called |-> FALSE, values |-> <<>>]

NoResult == [st |-> "none", err |-> "", bytes |-> <<>>]

EncTypes == {TUint(256), TBool, TTuple(<<TUint(256), TString>>)}

EncValues ==
    {VUint(U(5), 8), VUint(U(300), 256), VBool(TRUE),
     VTuple(<<VUint(U(5), 8), VString(<<97, 98>>)>>),
     VTuple(<<VUint(U(300), 256), VString(<<97, 98>>)>>),
     VTuple(<<VUint(U(5), 8)>>),
     VTuple(<<VUint(U(300), 256)>>),
     VTuple(<<VUint(U(5), 8), VString(<<97, 98>>), VBool(TRUE)>>)}

EncFunctions == {[name |-> "f", inputs |-> ins, outputs |-> <<>>] : ins \in SeqsUpTo(EncTypes, MaxArgs)}

ParamName(i) == "p" \o ToString(i)

EvTypes == {TUint(256), TString}

NoEvent == [anonymous |-> FALSE, inputs |-> <<>>]

Events ==
    UNION {{[anonymous |-> an,
             inputs |-> [i \in 1..n |-> [name |-> ParamName(i), ty |-> ts[i], indexed |-> ix[i]]]] :
               an \in BOOLEAN, ts \in [1..n -> EvTypes], ix \in [1..n -> BOOLEAN]} :
           n \in 0..MaxEventParams}

LogPayloads ==
    {<<>>,
     U(7),
     SubSeq(U(7), 1, 31),
     U(7) \o U(8),
     encode_seq(<<VString(<<97, 98>>)>>),
     encode_seq(<<VUint(U(7), 256), VString(<<97, 98>>)>>),
     encode_seq(<<VString(<<97, 98>>), VUint(U(7), 256)>>)}

NoLog == [topics |-> <<>>, data |-> <<>>]

Logs ==
    {[topics |-> [i \in 1..c |-> IF i = 1 THEN t0 ELSE U(100 + i)], data |-> d] :
        c \in 0..MaxTopics, t0 \in {EventSelector, U(99)}, d \in LogPayloads}

\* ------------------------------------------------------------------ actions
Init ==
    /\ values = <<>>
    /\ idx = 0
    /\ fixed_values = <<>>
    /\ failed = 0
    /\ encoder = NoEncoder
    /\ result = NoResult
    /\ ev = NoEvent
    /\ log = NoLog
    /\ decoded = NoDecoded
    /\ decoded_params = NoLogRes
    /\ slice = <<>>
    /\ fb = NoFb
    /\ fn = NoFn
    /\ sig = ""
    /\ pc = "ready"
    /\ lib \in Libs
    /\ ty = NoType
    /\ val = NoValue
    /\ res = NoRes
    /\ res2 = NoRes
    /\ tc = "none"

\* type_check(val, ty) called on its own
TypeCheck ==
    /\ pc = "ready"
    /\ \E t \in Types, v \in Values :
          /\ ty' = t
          /\ val' = v
          /\ tc' = type_check(v, t)
    /\ pc' = "checked"
    /\ UNCHANGED <<lib, res, res2, fbVars, fn, sig, logVars, encVars>>

\* fix_type_size(ty, val)
FixTypeSize ==
    /\ pc = "ready"
    /\ \E t \in Types, v \in Values :
          /\ ty' = t
          /\ val' = v
          /\ res' = fix_type_size(t, v, lib.tuple_arity)
    /\ pc' = "fixed"
    /\ UNCHANGED <<lib, res2, tc, fbVars, fn, sig, logVars, encVars>>

\* fix_type_size applied to the value a successful fix_type_size returned
FixAgain ==
    /\ pc = "fixed"
    /\ res.st = "ok"
    /\ res2' = fix_type_size(ty, res.val, lib.tuple_arity)
    /\ pc' = "refixed"
    /\ UNCHANGED <<lib, ty, val, res, tc, fbVars, fn, sig, logVars, encVars>>

NextReconcile == TypeCheck \/ FixTypeSize \/ FixAgain

SpecReconcile == Init /\ [][NextReconcile]_vars

\* ------------------------------------------------- properties: reconciler
\* every Int, Uint and FixedBytes node of v carries the width t declares at
\* that node, and v has the shape of t
RECURSIVE WidthsAgree(_, _)
WidthsAgree(v, t) ==
    /\ v.k = t.k
    /\ v.k \in WidthKinds => v.w = t.w
    /\ v.k \in {"Array", "FixedArray"} => \A i \in 1..Len(v.e) : WidthsAgree(v.e[i], t.ts[1])
    /\ v.k = "FixedArray" => Len(v.e) = t.n
    /\ v.k = "Tuple" =>
          /\ Len(v.e) = Len(t.ts)
          /\ \A i \in 1..Len(v.e) : WidthsAgree(v.e[i], t.ts[i])

\* C1: whenever type_check(val, ty) is true, fix_type_size(ty, val) succeeds
\* and every width-bearing node of the result has the width ty declares.
C1_CompatibleIsRepaired ==
    (pc = "fixed" /\ type_check(val, ty) = "true") =>
        (res.st = "ok" /\ WidthsAgree(res.val, ty))

\* C3: a value whose variant differs from the type's variant is rejected
\* with the type mismatch error, and the encode/decode step is not reached.
C3_KindMismatchRejected ==
    (pc = "fixed" /\ val.k # ty.k) =>
        (res.st = "err" /\ res.err = "TypeMismatch" /\ ~res.repaired)

C3_Witness ==
    /\ pc = "fixed"
    /\ val.k = "Uint" /\ ty.k = "Bool"
    /\ res.err = "TypeMismatch"

\* C4: applying fix_type_size to the value a successful fix_type_size
\* returned succeeds, takes the exact-match path and returns that same value.
C4_Idempotent ==
    pc = "refixed" =>
        /\ res2.st = "ok"
        /\ res2.cow = "Borrowed"
        /\ ~res2.repaired
        /\ res2.val = res.val

C4_Witness ==
    /\ pc = "refixed"
    /\ res.cow = "Owned"
    /\ res.val # val
    /\ res2.val = res.val

\* C10: type_check of a Tuple value against a Tuple type never aborts and
\* is true only when the lengths agree and every element is compatible with
\* the component type at its position.
C10_TupleCheckTotal ==
    (pc = "checked" /\ val.k = "Tuple" /\ ty.k = "Tuple") =>
        /\ tc # "panic"
        /\ tc = "true" =>
              /\ Len(val.e) = Len(ty.ts)
              /\ \A i \in 1..Len(val.e) : type_check(val.e[i], ty.ts[i]) = "true"

\* ---------------------------------------------- fixed_bytes_from_slice spec
FixedBytesFromSlice ==
    /\ pc = "ready"
    /\ \E s \in Slices :
          /\ slice' = s
          /\ fb' = fixed_bytes_from_slice(s)
    /\ pc' = "sliced"
    /\ UNCHANGED <<lib, reconVars, fn, sig, logVars, encVars>>

NextFixedBytes == FixedBytesFromSlice

SpecFixedBytes == Init /\ [][NextFixedBytes]_vars

\* C5: fixed_bytes_from_slice fails exactly for slices longer than 32 bytes;
\* otherwise the value is FixedBytes of width Len(slice) over a 32-byte slot
\* that starts with the slice and is zero after it.
C5_FixedBytesFromSlice ==
    pc = "sliced" =>
        /\ fb.st = "err" <=> Len(slice) > 32
        /\ fb.st # "err" =>
              /\ fb.st = "ok"
              /\ fb.val.k = "FixedBytes"
              /\ fb.val.w = Len(slice)
              /\ Len(fb.val.v) = 32
              /\ SubSeq(fb.val.v, 1, Len(slice)) = slice
              /\ \A i \in (Len(slice) + 1)..32 : fb.val.v[i] = 0

C5_Witness ==
    /\ pc = "sliced"
    /\ Len(slice) = 32
    /\ fb.st = "ok"
    /\ fb.val.v = Fill(32, 255)

\* ----------------------------------------------------- signature_compat spec
SignatureCompat ==
    /\ pc = "ready"
    /\ \E f \in Functions :
          /\ fn' = f
          /\ sig' = signature_compat(f)
    /\ pc' = "signed"
    /\ UNCHANGED <<lib, reconVars, fbVars, logVars, encVars>>

NextSignature == SignatureCompat

SpecSignature == Init /\ [][NextSignature]_vars

\* the type strings of ts separated by single commas
RECURSIVE CommaJoined(_)
CommaJoined(ts) ==
    IF ts = <<>> THEN ""
    ELSE IF Len(ts) = 1 THEN selector_type_raw(ts[1])
    ELSE CommaJoined(SubSeq(ts, 1, Len(ts) - 1)) \o "," \o selector_type_raw(ts[Len(ts)])

\* C8: the signature is name(inputs), followed by :(outputs) exactly when
\* there are outputs, with single commas between types and none at the ends.
C8_SignatureFormat ==
    pc = "signed" =>
        /\ sig = fn.name \o "(" \o CommaJoined(fn.inputs) \o ")"
                   \o (IF Len(fn.outputs) > 0 THEN ":(" \o CommaJoined(fn.outputs) \o ")" ELSE "")
        /\ (fn.name = "f" /\ fn.inputs = <<>> /\ fn.outputs = <<>>) => sig = "f()"
        /\ (fn.name = "f" /\ fn.inputs = <<TUint(256)>> /\ fn.outputs = <<>>) => sig = "f(uint256)"
        /\ (fn.name = "f" /\ fn.inputs = <<TBool>> /\ fn.outputs = <<TUint(256), TString>>)
              => sig = "f(bool):(uint256,string)"
        /\ (fn.name = "functionName" /\ fn.inputs = <<>> /\ fn.outputs = <<TUint(256)>>)
              => sig = "functionName():(uint256)"
        /\ (fn.name = "functionName" /\ fn.inputs = <<TUint(256), TFixedBytes(32)>>
              /\ fn.outputs = <<TString, TUint(256)>>)
              => sig = "functionName(uint256,bytes32):(string,uint256)"

C8_Witness ==
    /\ pc = "signed"
    /\ fn.name = "f" /\ fn.inputs = <<TBool>> /\ fn.outputs = <<TUint(256), TString>>
    /\ sig = "f(bool):(uint256,string)"

\* ------------------------------------------------------------ decode_log spec
\* EventExt::decode_log(ev, log); decoded keeps what the library returned
DecodeLog ==
    /\ pc = "ready"
    /\ \E e \in Events, l \in Logs :
          LET d == IF log_to_log_data_ok(l) THEN alloy_decode_log(e, l, lib.topic_count)
                   ELSE NoDecoded
          IN /\ ev' = e
             /\ log' = l
             /\ decoded' = d
             /\ decoded_params' = decode_log(e, l, d)
    /\ pc' = "logged"
    /\ UNCHANGED <<lib, reconVars, fbVars, fn, sig, encVars>>

NextLog == DecodeLog

SpecLog == Init /\ [][NextLog]_vars

\* how many of the first i parameters are indexed (resp. not indexed)
RECURSIVE RankAmong(_, _, _)
RankAmong(params, i, flag) ==
    IF i = 0 THEN 0
    ELSE RankAmong(params, i - 1, flag) + (IF params[i].indexed = flag THEN 1 ELSE 0)

\* the value the library decoded for the i-th declared parameter
ValueOfParam(i) ==
    IF ev.inputs[i].indexed THEN decoded.indexed[RankAmong(ev.inputs, i, TRUE)]
    ELSE decoded.body[RankAmong(ev.inputs, i, FALSE)]

\* C2: for an event with two indexed and one non-indexed parameter in any
\* declaration order, and a log with the signature topic, two more topics
\* and a payload of one value, decode_log returns three entries, the i-th
\* with the name of the i-th parameter and the value decoded for it.
C2_NamesFollowDeclaration ==
    ( /\ pc = "logged"
      /\ lib.topic_count
      /\ ~ev.anonymous
      /\ Len(ev.inputs) = 3
      /\ Len(SelectSeq(ev.inputs, IsIndexed)) = 2
      /\ Len(log.topics) = 3
      /\ log.topics[1] = EventSelector
      /\ decoded.ok ) =>
        /\ decoded_params.st = "ok"
        /\ Len(decoded_params.params) = 3
        /\ \A i \in 1..3 :
              /\ decoded_params.params[i].name = ev.inputs[i].name
              /\ decoded_params.params[i].value = ValueOfParam(i)

\* C7: when the library returns a number of indexed plus body values other
\* than the number of declared parameters, decode_log fails with the count
\* mismatch and no entry; a successful decode_log has one entry per
\* declared parameter.
C7_CountMismatch ==
    pc = "logged" =>
        /\ (decoded.ok /\ Len(decoded.indexed) + Len(decoded.body) # Len(ev.inputs)) =>
              decoded_params = LogRes("err", "CountMismatch", <<>>)
        /\ decoded_params.st = "ok" => Len(decoded_params.params) = Len(ev.inputs)
        /\ decoded_params.st # "ok" => (decoded_params.st = "err" /\ decoded_params.params = <<>>)

C7_Witness ==
    /\ pc = "logged"
    /\ decoded.ok
    /\ Len(decoded.indexed) + Len(decoded.body) < Len(ev.inputs)
    /\ decoded_params.err = "CountMismatch"

\* ------------------------------------------------------ abi_encode_input spec
\* abi_encode_input(fn, values): the length test
EncodeStart ==
    /\ pc = "ready"
    /\ \E f \in EncFunctions, vs \in SeqsUpTo(EncValues, MaxArgs) :
          /\ fn' = f
          /\ values' = vs
          /\ IF arity_ok(f.inputs, vs)
             THEN /\ pc' = "fixing"
                  /\ idx' = 1
                  /\ result' = result
             ELSE /\ pc' = "returned"
                  /\ idx' = idx
                  /\ result' = EncRes("err", "ArityMismatch", <<>>)
    /\ UNCHANGED <<lib, reconVars, fbVars, sig, logVars, fixed_values, failed, encoder>>

\* one turn of the loop: fix_type_size on the value at idx (input.resolve()
\* succeeds: the descriptor's types are well formed)
EncodeFix ==
    /\ pc = "fixing"
    /\ idx <= Len(fn.inputs)
    /\ IF idx > Len(values)
       THEN /\ pc' = "panicked"
            /\ UNCHANGED <<idx, fixed_values, failed, result>>
       ELSE LET r == fix_type_size(fn.inputs[idx], values[idx], lib.tuple_arity)
            IN CASE r.st = "ok" ->
                      /\ fixed_values' = Append(fixed_values, r)
                      /\ idx' = idx + 1
                      /\ UNCHANGED <<pc, failed, result>>
                 [] r.st = "err" ->
                      /\ failed' = idx
                      /\ result' = EncRes("err", r.err, <<>>)
                      /\ pc' = "returned"
                      /\ UNCHANGED <<idx, fixed_values>>
                 [] OTHER ->
                      /\ pc' = "panicked"
                      /\ UNCHANGED <<idx, fixed_values, failed, result>>
    /\ UNCHANGED <<lib, reconVars, fbVars, fn, sig, logVars, values, encoder>>

\* after the loop: the call of the library's encoder
EncodeCall ==
    /\ pc = "fixing"
    /\ idx > Len(fn.inputs)
    /\ LET arg == encoder_values(values, fixed_values)
       IN /\ encoder' = [called |-> TRUE, values |-> arg]
          /\ result' = alloy_abi_encode_input(fn, arg, lib.tuple_arity)
    /\ pc' = "returned"
    /\ UNCHANGED <<lib, reconVars, fbVars, fn, sig, logVars, values, idx, fixed_values, failed>>

NextEncode == EncodeStart \/ EncodeFix \/ EncodeCall

SpecEncode == Init /\ [][NextEncode]_vars

\* C6: with a number of values other than the number of inputs the call
\* returns the arity error before any value is reconciled and before the
\* encoder is called.
C6_ArityFirst ==
    (pc # "ready" /\ Len(values) # Len(fn.inputs)) =>
        /\ pc = "returned"
        /\ result = EncRes("err", "ArityMismatch", <<>>)
        /\ idx = 0
        /\ fixed_values = <<>>
        /\ failed = 0
        /\ ~encoder.called

C6_Witness ==
    /\ pc = "returned"
    /\ result.err = "ArityMismatch"
    /\ \E i \in 1..Min(Len(values), Len(fn.inputs)) : type_check(values[i], fn.inputs[i]) = "false"

\* C9: the encoder is called only after every value has been reconciled;
\* it receives one entry per input, each matching its input type exactly:
\* the caller's values when all matched already, the reconciled values
\* otherwise.  When a reconciliation fails the encoder is not called and
\* that error is returned.
C9_EncoderGetsExactValues ==
    /\ encoder.called =>
          /\ failed = 0
          /\ Len(fixed_values) = Len(fn.inputs)
          /\ Len(encoder.values) = Len(fn.inputs)
          /\ \A i \in 1..Len(fn.inputs) :
                /\ fixed_values[i].st = "ok"
                /\ matches(encoder.values[i], fn.inputs[i], lib.tuple_arity)
          /\ IF \A i \in 1..Len(fn.inputs) : matches(values[i], fn.inputs[i], lib.tuple_arity)
             THEN encoder.values = values
             ELSE \A i \in 1..Len(fn.inputs) :
                     encoder.values[i] = fix_type_size(fn.inputs[i], values[i], lib.tuple_arity).val
          /\ result.st = "ok"
    /\ failed # 0 =>
          /\ ~encoder.called
          /\ pc = "returned"
          /\ result = EncRes("err", fix_type_size(fn.inputs[failed], values[failed], lib.tuple_arity).err, <<>>)
    /\ (pc = "returned" /\ ~encoder.called) => result.st = "err"
    /\ pc = "panicked" => ~encoder.called

C9_Witness ==
    /\ pc = "returned"
    /\ encoder.called
    /\ encoder.values # values
    /\ Len(values) = 2
    /\ result.st = "ok"

====
